---- MODULE Spec2Model ----
(***************************************************************************)
(* A model of lib/mavensmate/project.js (MavensMate): the Project object,  *)
(* its on-disk mirror and the retrieve / deploy / delete workflows.        *)
(*                                                                         *)
(* The operations of Project are independent of each other, so the module  *)
(* keeps one group of variables per family of operations and one           *)
(* specification per family; a specification leaves the other groups at    *)
(* their idle values.                                                      *)
(***************************************************************************)
EXTENDS Naturals, Integers, Sequences, FiniteSets, TLC

VARIABLES
    \* ---- deleteFromServer / deleteLocalMetadata
    delDisk,      \* local files on disk: <<item, "file">> and <<item, "meta">>
    delHasMeta,   \* Metadata.hasMetaFile() of each item
    delBatch,     \* the batch handed to the operation in flight
    delPc,        \* position of deleteFromServer's promise chain
    delPre,       \* the disk when deleteFromServer was called
    \* ---- compileMetadata
    cmpFlag,      \* config.get('mm_compile_with_tooling_api')
    cmpBatch,     \* the batch: a sequence of Metadata [path, tooling]
    cmpPc,        \* "idle" | "threw" | "submitted" | "resolved" | "rejected"
    cmpCalls,     \* the calls made on sfdcClient, in order
    cmpError,     \* the path named by the error thrown, or <<>>
    \* ---- clean / edit / refreshFromServer
    src,          \* <project>/src: [exists, files: relative path -> content]
    scratch,      \* <project>/unpackaged, the extraction directory
    ops,          \* per operation slot: the operation in flight and its locals
    nops,         \* number of retrieve-based operations called so far
    \* ---- _initLocalStore
    lsFile,       \* config/.local_store: [exists, store: key -> entry]
    lsProps,      \* the fileProperties of the call in flight or last made
    lsPc,         \* "idle" | "writing" | "resolved" | "rejected"
    lsPrev,       \* the last call that resolved before this one: [props, file]
    \* ---- _parsePackageXml
    pkgFile,      \* src/package.xml: [exists, tokens]
    pkgPc,        \* "idle" | "reading" | "resolved" | "rejected"
    pkg,          \* the package the promise resolved with
    pkgParser,    \* the sax parser after write().close(): [pos, isValidPackage]
    \* ---- initialize(true) / _initNew / retrieveAndWriteToDisk
    npDisk,       \* the directories that exist
    npConfig,     \* config.get('mm_workspace')
    npWritten,    \* something has been written to disk since the start
    npInits,      \* number of _initNew calls made
    inst,         \* the Project instances: fields and promise chains
    \* ---- initialize(false) / _initExisting
    exFiles,      \* the files of the project directory that exist
    exInput,      \* what the reads will find: [settingsParse, password]
    exPc,         \* position of _initExisting's chain
    exOutcome,    \* of initialize(): "none" | "threw" | "resolved" | "rejected"
    exError,      \* the failure the caller got
    exTrace,      \* the steps _initExisting has started, in order
    exSelf,       \* the fields of the project the chain has set
    \* ---- _stash / _removeStash
    stSrc,        \* <project>/src: [exists, files]
    stTmp,        \* the directories tmp.dir has made: id -> [exists, files]
    stashPath,    \* self._stashPath: 0 for undefined, or the id of a directory
    stPc,         \* of _stash: "idle" | "creating" | "resolved" | "rejected"
    stLast,       \* the stash call that ended last: what it did
    stRemoves,    \* number of _removeStash calls made
    \* ---- the 'sfdcclient-cache-refresh' listener / _writeSession
    seClient,     \* the client's [accessToken, instanceUrl] now
    seFile,       \* config/.session: [exists, session]
    seWrites,     \* the outputFile calls in flight: [n, session]
    seRenewals,   \* number of renewal notifications so far
    seLastDone,   \* the renewal whose write completed last, 0 for none
    seOverlap,    \* two writes have been in flight together
    seUncaught    \* the listener's catch has thrown

vDelete  == <<delDisk, delHasMeta, delBatch, delPc, delPre>>
vCompile == <<cmpFlag, cmpBatch, cmpPc, cmpCalls, cmpError>>
vSync    == <<src, scratch, ops, nops>>
vStore   == <<lsFile, lsProps, lsPc, lsPrev>>
vParse   == <<pkgFile, pkgPc, pkg, pkgParser>>
vNew     == <<npDisk, npConfig, npWritten, npInits, inst>>
vExist   == <<exFiles, exInput, exPc, exOutcome, exError, exTrace, exSelf>>
vStash   == <<stSrc, stTmp, stashPath, stPc, stLast, stRemoves>>
vSession == <<seClient, seFile, seWrites, seRenewals, seLastDone, seOverlap,
              seUncaught>>
vars     == <<vDelete, vCompile, vSync, vStore, vParse, vNew, vExist, vStash,
              vSession>>

(***************************************************************************)
(* Bounds of the model.                                                    *)
(***************************************************************************)
MaxItems == 2
MaxBatch == 2
MaxOps == 2
MaxProps == 2
MaxTokens == 5
MaxStashes == 2
MaxRemoves == 2
MaxRenewals == 3

(***************************************************************************)
(* deleteFromServer (project.js 581-606) and deleteLocalMetadata (894-905) *)
(***************************************************************************)
Items == 1..MaxItems

DelFiles == Items \X {"file", "meta"}

\* The paths deleteLocalMetadata looks at for item m: m.getPath(), and
\* m.getPath()+'-meta.xml' when m.hasMetaFile().
LocalPathsOf(m) ==
    {<<m, "file">>} \cup (IF delHasMeta[m] THEN {<<m, "meta">>} ELSE {})

\* fs.existsSync / fs.removeSync over every item of the batch.
deleteLocalMetadata(disk, metadata) ==
    disk \ UNION {LocalPathsOf(m) : m \in metadata}

DeleteIdle ==
    /\ delDisk = {}
    /\ delHasMeta = [m \in Items |-> FALSE]
    /\ delBatch = {}
    /\ delPc = "idle"
    /\ delPre = {}

DeleteInit ==
    /\ delDisk \in SUBSET DelFiles
    /\ delHasMeta \in [Items -> BOOLEAN]
    /\ delBatch = {}
    /\ delPc = "idle"
    /\ delPre = {}

NoDeleteInFlight == delPc \in {"idle", "resolved", "rejected"}

\* A variant that removes the local copies before the remote call is made.
deleteFromServer_localFirst(metadata) ==
    /\ NoDeleteInFlight
    /\ delBatch' = metadata
    /\ delPre' = delDisk
    /\ delDisk' = deleteLocalMetadata(delDisk, metadata)
    /\ delPc' = "staging"
    /\ UNCHANGED <<delHasMeta, vCompile, vSync, vStore, vParse, vNew, vExist, vStash, vSession>>

\* The synchronous part: new Deploy(...), deploy.stageDelete(metadata).
deleteFromServer(metadata) ==
    /\ NoDeleteInFlight
    /\ delBatch' = metadata
    /\ delPre' = delDisk
    /\ delPc' = "staging"
    /\ UNCHANGED <<delDisk, delHasMeta, vCompile, vSync, vStore, vParse, vNew, vExist, vStash, vSession>>

\* deploy.stageDelete resolves with the zip stream: process.chdir, then
\* deploy.executeStream(zipStream).
stageDelete_resolved ==
    /\ delPc = "staging"
    /\ delPc' = "executing"
    /\ UNCHANGED <<delDisk, delHasMeta, delBatch, delPre, vCompile, vSync, vStore, vParse, vNew, vExist, vStash, vSession>>

\* deploy.stageDelete rejects: the 'catch' handler rejects the promise.
stageDelete_rejected ==
    /\ delPc = "staging"
    /\ delPc' = "rejected"
    /\ UNCHANGED <<delDisk, delHasMeta, delBatch, delPre, vCompile, vSync, vStore, vParse, vNew, vExist, vStash, vSession>>

\* deploy.executeStream resolves: deferred.resolve(result).
executeStream_resolved ==
    /\ delPc = "executing"
    /\ delPc' = "resolved"
    /\ UNCHANGED <<delDisk, delHasMeta, delBatch, delPre, vCompile, vSync, vStore, vParse, vNew, vExist, vStash, vSession>>

\* deploy.executeStream rejects: deferred.reject(error).
executeStream_rejected ==
    /\ delPc = "executing"
    /\ delPc' = "rejected"
    /\ UNCHANGED <<delDisk, delHasMeta, delBatch, delPre, vCompile, vSync, vStore, vParse, vNew, vExist, vStash, vSession>>

\* The caller removes the local copies of a batch (a synchronous call, made
\* between operations).
DeleteLocalMetadata(metadata) ==
    /\ NoDeleteInFlight
    /\ delDisk' = deleteLocalMetadata(delDisk, metadata)
    /\ delPc' = "idle"
    /\ delBatch' = {}
    /\ delPre' = {}
    /\ UNCHANGED <<delHasMeta, vCompile, vSync, vStore, vParse, vNew, vExist, vStash, vSession>>

NextDelete ==
    \/ \E metadata \in SUBSET Items : deleteFromServer(metadata)
    \/ stageDelete_resolved
    \/ stageDelete_rejected
    \/ executeStream_resolved
    \/ executeStream_rejected
    \/ \E metadata \in SUBSET Items : DeleteLocalMetadata(metadata)

(***************************************************************************)
(* compileMetadata (project.js 436-478)                                    *)
(***************************************************************************)
\* Paths are sequences of characters, so that String.indexOf is computed.
ProjectPath == <<"/", "p">>

\* m.getPath() of the items a batch may hold: a file of the project, a file
\* of another directory, a file of another directory whose path holds the
\* project's path further in, and a file of a sibling directory whose name
\* starts with the project's name.
ItemPaths ==
    { <<"/", "p", "/", "a">>,
      <<"/", "q", "/", "a">>,
      <<"/", "q", "/", "p", "/", "a">>,
      <<"/", "p", "q", "/", "a">> }

\* A Metadata instance: getPath() and isToolingType().
MetadataItems == [path : ItemPaths, tooling : BOOLEAN]

Batches == UNION {[1..n -> MetadataItems] : n \in 0..MaxBatch}

\* String.prototype.indexOf: the first position (from 0) of t in s, or -1.
IndexOf(s, t) ==
    LET hits == {i \in 0..(Len(s) - Len(t)) : SubSeq(s, i + 1, i + Len(t)) = t}
    IN  IF hits = {} THEN -1 ELSE CHOOSE i \in hits : \A j \in hits : i <= j

\* The check of lines 445-449 on one item: no throw for it.
PathCheckPasses(m) == IndexOf(m.path, ProjectPath) # -1

\* _.each(metadata, ...) throws at the first item that fails the check.
FirstOffender(metadata) ==
    LET bad == {i \in 1..Len(metadata) : ~PathCheckPasses(metadata[i])}
    IN  IF bad = {} THEN 0 ELSE CHOOSE i \in bad : \A j \in bad : i <= j

\* Lines 455-464: the loop runs only when the flag is on.
canCompileWithToolingApi(should, metadata) ==
    IF should
    THEN ~ \E i \in 1..Len(metadata) : ~metadata[i].tooling
    ELSE TRUE

\* A variant that is satisfied by one tooling-eligible item.
compilerMethod_anyEligible(should, metadata) ==
    IF should /\ (\E i \in 1..Len(metadata) : metadata[i].tooling)
    THEN "compileWithToolingApi"
    ELSE "compileWithMetadataApi"

\* Line 466.
compilerMethod(should, metadata) ==
    IF should /\ canCompileWithToolingApi(should, metadata)
    THEN "compileWithToolingApi"
    ELSE "compileWithMetadataApi"

CompileIdle ==
    /\ cmpFlag = FALSE
    /\ cmpBatch = <<>>
    /\ cmpPc = "idle"
    /\ cmpCalls = <<>>
    /\ cmpError = <<>>

CompileInit ==
    /\ cmpFlag \in BOOLEAN
    /\ cmpBatch = <<>>
    /\ cmpPc = "idle"
    /\ cmpCalls = <<>>
    /\ cmpError = <<>>

\* The synchronous part of compileMetadata: the path check, the choice of
\* the compile method and the call on sfdcClient.
compileMetadata(metadata) ==
    /\ cmpPc # "submitted"
    /\ cmpBatch' = metadata
    /\ IF FirstOffender(metadata) # 0
       THEN /\ cmpPc' = "threw"
            /\ cmpError' = metadata[FirstOffender(metadata)].path
            /\ cmpCalls' = <<>>
       ELSE /\ cmpPc' = "submitted"
            /\ cmpError' = <<>>
            /\ cmpCalls' = << [method |-> compilerMethod(cmpFlag, metadata),
                               metadata |-> metadata] >>
    /\ UNCHANGED <<cmpFlag, vDelete, vSync, vStore, vParse, vNew, vExist, vStash, vSession>>

\* The compile call resolves: deferred.resolve(result).
compile_resolved ==
    /\ cmpPc = "submitted"
    /\ cmpPc' = "resolved"
    /\ UNCHANGED <<cmpFlag, cmpBatch, cmpCalls, cmpError, vDelete, vSync, vStore, vParse, vNew, vExist, vStash, vSession>>

\* The compile call rejects: deferred.reject(error).
compile_rejected ==
    /\ cmpPc = "submitted"
    /\ cmpPc' = "rejected"
    /\ UNCHANGED <<cmpFlag, cmpBatch, cmpCalls, cmpError, vDelete, vSync, vStore, vParse, vNew, vExist, vStash, vSession>>

NextCompile ==
    \/ \E metadata \in Batches : compileMetadata(metadata)
    \/ compile_resolved
    \/ compile_rejected

(***************************************************************************)
(* _parsePackageXml (335-391)                                              *)
(***************************************************************************)
\* package.xml as the sequence of its element starts, in document order:
\* a <types> or a <version> child of the root opens an element, a <name> or
\* a <members> element with its text belongs to the element opened last.
XmlTokens ==
    { [tag |-> "types", val |-> ""],
      [tag |-> "version", val |-> ""],
      [tag |-> "name", val |-> "ApexClass"],
      [tag |-> "name", val |-> "ApexPage"],
      [tag |-> "members", val |-> "*"],
      [tag |-> "members", val |-> "Foo"] }

XmlTexts == UNION {[1..n -> XmlTokens] : n \in 0..MaxTokens}

IsContainer(tok) == tok.tag \in {"types", "version"}

\* new xmldoc.XmlDocument(data).children over the first n tokens: each
\* child is [name, val, children].
RECURSIVE XmlChildren(_, _)
XmlChildren(tokens, n) ==
    IF n = 0
    THEN <<>>
    ELSE LET before == XmlChildren(tokens, n - 1)
             tok == tokens[n]
             leaf == [name |-> tok.tag, val |-> tok.val]
         IN  IF IsContainer(tok) \/ before = <<>>
                \/ ~IsContainer([tag |-> before[Len(before)].name])
             THEN Append(before, [name |-> tok.tag, val |-> tok.val,
                                  children |-> <<>>])
             ELSE [before EXCEPT ![Len(before)].children = Append(@, leaf)]

\* Lines 364-369: the val of the first child named 'name', or undefined.
MetadataTypeOf(type) ==
    LET names == {i \in 1..Len(type.children) : type.children[i].name = "name"}
    IN  IF names = {}
        THEN "undefined"
        ELSE type.children[CHOOSE i \in names : \A j \in names : i <= j].val

WildcardVal == [wild |-> TRUE, members |-> <<>>]

\* A variant of the members loop that keeps '*' as one more literal member
\* unless it comes first.
RECURSIVE MembersVal_literalStar(_, _, _)
MembersVal_literalStar(nodes, i, val) ==
    IF i > Len(nodes)
    THEN [wild |-> FALSE, members |-> val]
    ELSE IF nodes[i].name = "members"
         THEN IF nodes[i].val = "*" /\ val = <<>>
              THEN WildcardVal
              ELSE MembersVal_literalStar(nodes, i + 1, Append(val, nodes[i].val))
         ELSE MembersVal_literalStar(nodes, i + 1, val)

\* Lines 370-379: the loop over the children from the i-th on, val so far.
RECURSIVE MembersVal(_, _, _)
MembersVal(nodes, i, val) ==
    IF i > Len(nodes)
    THEN [wild |-> FALSE, members |-> val]
    ELSE IF nodes[i].name = "members"
         THEN IF nodes[i].val = "*"
              THEN WildcardVal
              ELSE MembersVal(nodes, i + 1, Append(val, nodes[i].val))
         ELSE MembersVal(nodes, i + 1, val)

EmptyPkg == [k \in {} |-> WildcardVal]

\* Lines 357-381: the _.each over the first n children of the document.
RECURSIVE PkgFrom(_, _)
PkgFrom(children, n) ==
    IF n = 0
    THEN EmptyPkg
    ELSE LET before == PkgFrom(children, n - 1)
             type == children[n]
         IN  IF type.name # "types"
             THEN before
             ELSE [k \in (DOMAIN before) \cup {MetadataTypeOf(type)} |->
                     IF k = MetadataTypeOf(type)
                     THEN MembersVal(type.children, 1, <<>>)
                     ELSE before[k]]

ParsePackage(tokens) ==
    LET children == XmlChildren(tokens, Len(tokens))
    IN  PkgFrom(children, Len(children))

\* A piece of markup that the sax parser reports through onerror.
XmlError == [tag |-> "#error", val |-> ""]

\* Texts that do not parse: the error at each place of a small package.
MalformedTexts ==
    LET base == << [tag |-> "types", val |-> ""],
                   [tag |-> "name", val |-> "ApexClass"],
                   [tag |-> "members", val |-> "Foo"] >>
    IN  {SubSeq(base, 1, k) \o <<XmlError>> \o SubSeq(base, k + 1, Len(base)) :
            k \in 0..Len(base)}

NoPackageFile == [exists |-> FALSE, tokens |-> <<>>]

NoParser == [pos |-> 0, isValidPackage |-> TRUE]

\* A variant of the parser run that gives up at the first error.
RECURSIVE SaxWrite_stopAtError(_, _, _)
SaxWrite_stopAtError(tokens, i, isValidPackage) ==
    IF i > Len(tokens)
    THEN [pos |-> Len(tokens), isValidPackage |-> isValidPackage]
    ELSE IF tokens[i] = XmlError
         THEN [pos |-> i, isValidPackage |-> FALSE]
         ELSE SaxWrite_stopAtError(tokens, i + 1, isValidPackage)

\* Lines 347-351 and 386: parser.write(data).close() from the i-th token
\* on. onerror clears the flag and resumes the parser, which goes on to the
\* end of the data, where onend runs.
RECURSIVE SaxWrite(_, _, _)
SaxWrite(tokens, i, isValidPackage) ==
    IF i > Len(tokens)
    THEN [pos |-> Len(tokens), isValidPackage |-> isValidPackage]
    ELSE IF tokens[i] = XmlError
         THEN SaxWrite(tokens, i + 1, FALSE)
         ELSE SaxWrite(tokens, i + 1, isValidPackage)

ParseIdle ==
    /\ pkgFile = NoPackageFile
    /\ pkgPc = "idle"
    /\ pkg = EmptyPkg
    /\ pkgParser = NoParser

ParseInit ==
    /\ pkgFile \in
          {NoPackageFile}
          \cup {[exists |-> TRUE, tokens |-> t] : t \in XmlTexts \cup MalformedTexts}
    /\ pkgPc = "idle"
    /\ pkg = EmptyPkg
    /\ pkgParser = NoParser

\* Lines 336-340: a new deferred and pkg = {}, and fs.readFile is started.
ReadFileStarted ==
    /\ pkgPc' = "reading"
    /\ pkg' = EmptyPkg
    /\ pkgParser' = NoParser
    /\ pkgFile' = pkgFile

\* _parsePackageXml() called on its own.
_parsePackageXml ==
    /\ pkgPc # "reading"
    /\ ReadFileStarted
    /\ UNCHANGED <<vDelete, vCompile, vSync, vStore, vNew, vExist, vStash, vSession>>

\* The readFile callback: an error rejects; otherwise the sax parser runs
\* over the data and onend rejects for an invalid package, or builds pkg and
\* resolves with it.
readFile_done ==
    /\ pkgPc = "reading"
    /\ IF ~pkgFile.exists
       THEN /\ pkg' = EmptyPkg
            /\ pkgParser' = NoParser
            /\ pkgPc' = "rejected"
       ELSE LET parser == SaxWrite(pkgFile.tokens, 1, TRUE)
            IN  /\ pkgParser' = parser
                /\ IF ~parser.isValidPackage
                   THEN /\ pkg' = EmptyPkg
                        /\ pkgPc' = "rejected"
                   ELSE /\ pkg' = ParsePackage(pkgFile.tokens)
                        /\ pkgPc' = "resolved"
    /\ UNCHANGED <<pkgFile, vDelete, vCompile, vSync, vStore, vNew, vExist, vStash, vSession>>

NextParse ==
    \/ _parsePackageXml
    \/ readFile_done

(***************************************************************************)
(* clean (298-329), edit (485-511), refreshFromServer (518-579)            *)
(***************************************************************************)
\* Paths are sequences of segments. self.path is
\* path.join(self.workspace, self.projectName).
Workspace == <<"ws">>
ProjectName == <<"proj">>
SelfPath == Workspace \o ProjectName
SrcPath == SelfPath \o <<"src">>
UnpackagedPath == SelfPath \o <<"unpackaged">>

\* The files, relative to src/ or unpackaged/, that a tree may hold.
RelPaths == { <<"package.xml">>, <<"classes", "A.cls">>, <<"pages", "B.page">> }

Slots == {1, 2}

EmptyFiles == [p \in {} |-> 0]

\* A directory that does not exist.
AbsentTree == [exists |-> FALSE, files |-> EmptyFiles]

\* The content of a file: 0 for what the project held at the start, n for
\* the copy sent by the n-th retrieve.
LocalTrees ==
    {AbsentTree} \cup
    {[exists |-> TRUE, files |-> [p \in S |-> 0]] : S \in SUBSET RelPaths}

\* A retrieve result's zip: with or without an 'unpackaged' directory.
NoArchive == [hasDir |-> FALSE, files |-> {}]

Archives ==
    {NoArchive} \cup {[hasDir |-> TRUE, files |-> S] : S \in SUBSET RelPaths}

\* calls: the retrieveUnpackaged calls the operation has made; preSrc and
\* preScratch: src/ and unpackaged/ when the operation was called.
IdleOp ==
    [kind |-> "none", pc |-> "idle", promise |-> "none", archive |-> NoArchive,
     tag |-> 0, todo |-> {}, preSrc |-> AbsentTree, calls |-> 0,
     preScratch |-> AbsentTree]

path_basename(file) == file[Len(file)]

path_dirname(file) == SubSeq(file, 1, Len(file) - 1)

\* String.prototype.replace(pattern, replacement) with a string pattern: the
\* first occurrence only.
StringReplace(str, pattern, replacement) ==
    LET i == IndexOf(str, pattern)
    IN  IF i = -1
        THEN str
        ELSE SubSeq(str, 1, i) \o replacement
                 \o SubSeq(str, i + Len(pattern) + 1, Len(str))

\* Lines 551-552 and 560-561: where a file found under unpackaged/ goes.
Destination(file) ==
    LET directory == path_dirname(file)
        destinationDirectory ==
            StringReplace(directory, Workspace \o ProjectName \o <<"unpackaged">>,
                          Workspace \o ProjectName \o <<"src">>)
    IN  destinationDirectory \o <<path_basename(file)>>

IsUnder(root, full) ==
    /\ Len(full) > Len(root)
    /\ SubSeq(full, 1, Len(root)) = root

\* A tree with file rel written (parent directories made as needed).
WriteFile(tree, rel, content) ==
    [exists |-> TRUE,
     files |-> [p \in (DOMAIN tree.files) \cup {rel} |->
                   IF p = rel THEN content ELSE tree.files[p]]]

\* util.writeStream(zipStream, self.path): the files of the archive are
\* written below self.path/unpackaged; what is already there stays.
ExtractInto(tree, files, tag) ==
    [exists |-> TRUE,
     files |-> [p \in (DOMAIN tree.files) \cup files |->
                   IF p \in files THEN tag ELSE tree.files[p]]]

\* Lines 546-563, the finder's 'file' handler on unpackaged/rel: the live
\* tree after it.
SpliceFile(live, retrieved, rel) ==
    LET file == UnpackagedPath \o rel
        dest == Destination(file)
    IN  IF path_basename(file) # "package.xml"
        THEN IF IsUnder(SrcPath, dest)
             THEN WriteFile(live, SubSeq(dest, Len(SrcPath) + 1, Len(dest)),
                            retrieved.files[rel])
             ELSE live
        ELSE live

\* The package.xml texts the runs of clean are tried with: one that
\* parses and one with an error before its end.
SyncPackageFiles ==
    { [exists |-> TRUE,
       tokens |-> << [tag |-> "types", val |-> ""],
                     [tag |-> "name", val |-> "ApexClass"],
                     [tag |-> "members", val |-> "*"] >>] }
    \cup {[exists |-> TRUE, tokens |-> t] : t \in {m \in MalformedTexts : m[2] = XmlError}}

\* What src/package.xml may hold given the files of src/.
PackageFilesOf(tree) ==
    IF <<"package.xml">> \in DOMAIN tree.files
    THEN SyncPackageFiles
    ELSE {NoPackageFile}

SyncIdle ==
    /\ src = AbsentTree
    /\ scratch = AbsentTree
    /\ ops = [s \in Slots |-> IdleOp]
    /\ nops = 0

SyncInit ==
    /\ src \in LocalTrees
    /\ scratch = AbsentTree
    /\ ops = [s \in Slots |-> IdleOp]
    /\ nops = 0

CanCall(s) ==
    /\ ops[s].pc \in {"idle", "done", "abandoned"}
    /\ nops < MaxOps

NewOp(kind, pc) ==
    [kind |-> kind, pc |-> pc, promise |-> "pending", archive |-> NoArchive,
     tag |-> nops + 1, todo |-> {}, preSrc |-> src,
     calls |-> IF pc = "retrieving" THEN 1 ELSE 0, preScratch |-> scratch]

\* clean(): _parsePackageXml() is called, which starts reading
\* src/package.xml.
clean(s) ==
    /\ CanCall(s)
    /\ pkgPc # "reading"
    /\ ReadFileStarted
    /\ ops' = [ops EXCEPT ![s] = NewOp("clean", "parsing")]
    /\ nops' = nops + 1
    /\ UNCHANGED <<src, scratch, vDelete, vCompile, vStore, vNew, vExist, vStash, vSession>>

\* _parsePackageXml has settled: when it rejected, clean's catch rejects;
\* when it resolved, retrieveUnpackaged(pkg) is called.
clean_parsed(s) ==
    /\ ops[s].kind = "clean" /\ ops[s].pc = "parsing"
    /\ pkgPc \in {"resolved", "rejected"}
    /\ IF pkgPc = "resolved"
       THEN ops' = [ops EXCEPT ![s].pc = "retrieving", ![s].calls = @ + 1]
       ELSE ops' = [ops EXCEPT ![s].pc = "done", ![s].promise = "rejected"]
    /\ UNCHANGED <<src, scratch, nops, vDelete, vCompile, vStore, vParse, vNew, vExist, vStash, vSession>>

\* edit(pkg): retrieveUnpackaged(pkg) is called at once.
edit(s) ==
    /\ CanCall(s)
    /\ ops' = [ops EXCEPT ![s] = NewOp("edit", "retrieving")]
    /\ nops' = nops + 1
    /\ UNCHANGED <<src, scratch, vDelete, vCompile, vStore, vParse, vNew, vExist, vStash, vSession>>

\* A variant that leaves a scratch directory of an earlier run in place.
refreshFromServer_keepStale(s) ==
    /\ CanCall(s)
    /\ ops' = [ops EXCEPT ![s] = NewOp("refresh", "retrieving")]
    /\ nops' = nops + 1
    /\ UNCHANGED <<src, scratch, vDelete, vCompile, vStore, vParse, vNew, vExist, vStash, vSession>>

\* refreshFromServer(metadata): the scratch directory is removed if it
\* exists, then retrieveUnpackaged(metadataPayload) is called.
refreshFromServer(s) ==
    /\ CanCall(s)
    /\ scratch' = AbsentTree
    /\ ops' = [ops EXCEPT ![s] = NewOp("refresh", "retrieving")]
    /\ nops' = nops + 1
    /\ UNCHANGED <<src, vDelete, vCompile, vStore, vParse, vNew, vExist, vStash, vSession>>

\* retrieveUnpackaged resolves with a zip stream: util.writeStream is called.
retrieve_resolved(s, archive) ==
    /\ ops[s].pc = "retrieving"
    /\ ops' = [ops EXCEPT ![s].pc = "extracting", ![s].archive = archive]
    /\ UNCHANGED <<src, scratch, nops, vDelete, vCompile, vStore, vParse, vNew, vExist, vStash, vSession>>

\* retrieveUnpackaged rejects: clean and edit reject in their catch;
\* refreshFromServer's chain has no rejection handler, its deferred is
\* left pending.
retrieve_rejected(s) ==
    /\ ops[s].pc = "retrieving"
    /\ IF ops[s].kind = "refresh"
       THEN ops' = [ops EXCEPT ![s].pc = "abandoned"]
       ELSE ops' = [ops EXCEPT ![s].pc = "done", ![s].promise = "rejected"]
    /\ UNCHANGED <<src, scratch, nops, vDelete, vCompile, vStore, vParse, vNew, vExist, vStash, vSession>>

\* Lines 316-319 and 498-501: removeSync(src), then unpackaged is renamed
\* to src if it exists. The pair <<src, unpackaged>> afterwards.
ReplaceSrc(extracted) ==
    IF extracted.exists
    THEN <<extracted, AbsentTree>>
    ELSE <<AbsentTree, extracted>>

\* util.writeStream resolves, and the next handler of the chain runs: clean
\* and edit replace src/ and resolve; refreshFromServer starts the finder
\* on unpackaged/.
extract_resolved(s) ==
    /\ ops[s].pc = "extracting"
    /\ LET extracted == IF ops[s].archive.hasDir
                        THEN ExtractInto(scratch, ops[s].archive.files, ops[s].tag)
                        ELSE scratch
       IN  IF ops[s].kind = "refresh"
           THEN /\ scratch' = extracted
                /\ src' = src
                /\ ops' = [ops EXCEPT ![s].pc = "traversing",
                                      ![s].todo = DOMAIN extracted.files]
                /\ UNCHANGED pkgFile
           ELSE /\ src' = ReplaceSrc(extracted)[1]
                /\ scratch' = ReplaceSrc(extracted)[2]
                /\ pkgFile' \in PackageFilesOf(ReplaceSrc(extracted)[1])
                /\ ops' = [ops EXCEPT ![s].pc = "done", ![s].promise = "resolved"]
    /\ UNCHANGED <<nops, pkgPc, pkg, pkgParser, vDelete, vCompile, vStore, vNew, vExist, vStash, vSession>>

\* util.writeStream rejects after writing some of the archive's files.
extract_rejected(s, written) ==
    /\ ops[s].pc = "extracting"
    /\ written \subseteq ops[s].archive.files
    /\ scratch' = IF written = {} THEN scratch
                  ELSE ExtractInto(scratch, written, ops[s].tag)
    /\ IF ops[s].kind = "refresh"
       THEN ops' = [ops EXCEPT ![s].pc = "abandoned"]
       ELSE ops' = [ops EXCEPT ![s].pc = "done", ![s].promise = "rejected"]
    /\ UNCHANGED <<src, nops, vDelete, vCompile, vStore, vParse, vNew, vExist, vStash, vSession>>

\* The finder reports a file of unpackaged/: the 'file' handler.
refresh_file(s, rel) ==
    /\ ops[s].pc = "traversing"
    /\ rel \in ops[s].todo
    /\ rel \in DOMAIN scratch.files
    /\ src' = SpliceFile(src, scratch, rel)
    /\ ops' = [ops EXCEPT ![s].todo = @ \ {rel}]
    /\ UNCHANGED <<scratch, nops, vDelete, vCompile, vStore, vParse, vNew, vExist, vStash, vSession>>

\* The finder reports an error: the 'error' handler rejects; the walk goes on.
refresh_error(s) ==
    /\ ops[s].pc = "traversing"
    /\ ops[s].promise = "pending"
    /\ ops' = [ops EXCEPT ![s].promise = "rejected"]
    /\ UNCHANGED <<src, scratch, nops, vDelete, vCompile, vStore, vParse, vNew, vExist, vStash, vSession>>

\* A variant of the 'end' handler that leaves unpackaged/ in place.
refresh_end_keepScratch(s) ==
    /\ ops[s].pc = "traversing"
    /\ ops[s].todo = {}
    /\ ops' = [ops EXCEPT ![s].pc = "done",
                          ![s].promise = IF @ = "pending" THEN "resolved" ELSE @]
    /\ UNCHANGED <<src, scratch, nops, vDelete, vCompile, vStore, vParse, vNew, vExist, vStash, vSession>>

\* The finder ends: unpackaged/ is removed and the deferred resolved (which
\* changes nothing once it is rejected).
refresh_end(s) ==
    /\ ops[s].pc = "traversing"
    /\ ops[s].todo = {}
    /\ scratch' = AbsentTree
    /\ ops' = [ops EXCEPT ![s].pc = "done",
                          ![s].promise = IF @ = "pending" THEN "resolved" ELSE @]
    /\ UNCHANGED <<src, nops, vDelete, vCompile, vStore, vParse, vNew, vExist, vStash, vSession>>

\* The finder comes to a file of unpackaged/ that is no longer there (the
\* directory was removed or renamed since the walk began): nothing is
\* copied; the finder may report an error for it, which rejects.
refresh_lost(s, rel, err) ==
    /\ ops[s].pc = "traversing"
    /\ rel \in ops[s].todo
    /\ rel \notin DOMAIN scratch.files
    /\ ops' = [ops EXCEPT ![s].todo = @ \ {rel},
                          ![s].promise = IF err /\ @ = "pending"
                                         THEN "rejected" ELSE @]
    /\ UNCHANGED <<src, scratch, nops, vDelete, vCompile, vStore, vParse, vNew, vExist, vStash, vSession>>

\* Two operations in flight together: the steps of one interleave with the
\* steps of the other at each of their callbacks. clean is called when no
\* other call of clean is waiting for its parse.
NextSyncConcurrent ==
    \E s \in Slots :
        \/ (\A t \in Slots \ {s} : ops[t].pc # "parsing") /\ clean(s)
        \/ readFile_done
        \/ clean_parsed(s)
        \/ edit(s)
        \/ refreshFromServer(s)
        \/ \E archive \in Archives : retrieve_resolved(s, archive)
        \/ retrieve_rejected(s)
        \/ extract_resolved(s)
        \/ \E written \in SUBSET RelPaths : extract_rejected(s, written)
        \/ \E rel \in RelPaths : refresh_file(s, rel)
        \/ \E rel \in RelPaths, err \in BOOLEAN : refresh_lost(s, rel, err)
        \/ refresh_error(s)
        \/ refresh_end(s)

\* One operation at a time, on slot 1.
NextSync ==
    \E s \in {1} :
        \/ clean(s)
        \/ readFile_done
        \/ clean_parsed(s)
        \/ edit(s)
        \/ refreshFromServer(s)
        \/ \E archive \in Archives : retrieve_resolved(s, archive)
        \/ retrieve_rejected(s)
        \/ extract_resolved(s)
        \/ \E written \in SUBSET RelPaths : extract_rejected(s, written)
        \/ \E rel \in RelPaths : refresh_file(s, rel)
        \/ refresh_error(s)
        \/ refresh_end(s)

(***************************************************************************)
(* _initLocalStore (853-892)                                               *)
(***************************************************************************)
\* Names are sequences of tokens, so that indexOf('package.xml') and the
\* concatenation fullName+'.'+suffix are computed. A file name ends with
\* its extension.
FileProperties ==
    { [fullName |-> <<"Foo">>, fileName |-> <<"unpackaged/classes/", "Foo", "cls">>,
       id |-> 1],
      [fullName |-> <<"Foo">>, fileName |-> <<"unpackaged/classes/", "Foo", "cls">>,
       id |-> 2],
      [fullName |-> <<"Foo">>, fileName |-> <<"unpackaged/pages/", "Foo", "page">>,
       id |-> 3],
      [fullName |-> <<"unpackaged/", "package.xml">>,
       fileName |-> <<"unpackaged/", "package", "xml">>, id |-> 4],
      [fullName |-> <<"Bar">>, fileName |-> <<"unpackaged/other/", "Bar", "zzz">>,
       id |-> 5] }

PropertyLists == UNION {[1..n -> FileProperties] : n \in 0..MaxProps}

\* metadataService.getTypeByPath(fileName): the type whose suffix is the
\* file's extension, or undefined.
getTypeByPath(fileName) ==
    LET ext == fileName[Len(fileName)]
    IN  IF ext = "cls" THEN [defined |-> TRUE, suffix |-> "cls"]
        ELSE IF ext = "page" THEN [defined |-> TRUE, suffix |-> "page"]
        ELSE [defined |-> FALSE, suffix |-> ""]

\* Line 867: the entry goes into the store.
IsStored(fp) ==
    /\ getTypeByPath(fp.fileName).defined
    /\ IndexOf(fp.fullName, <<"package.xml">>) = -1

\* Line 868: fp.fullName+'.'+metadataType.suffix.
StoreKey(fp) == fp.fullName \o <<".", getTypeByPath(fp.fileName).suffix>>

\* Lines 869-870.
StoreValue(fp) ==
    [fullName |-> fp.fullName, fileName |-> fp.fileName, id |-> fp.id,
     mmState |-> "clean"]

EmptyStore == [k \in {} |-> 0]

\* store[key] = value.
StorePut(store, key, value) ==
    [k \in (DOMAIN store) \cup {key} |-> IF k = key THEN value ELSE store[k]]

\* The _.each of lines 863-877 over the first n entries, from store0.
RECURSIVE StoreFrom(_, _, _)
StoreFrom(store0, properties, n) ==
    IF n = 0
    THEN store0
    ELSE LET store == StoreFrom(store0, properties, n - 1)
             fp == properties[n]
         IN  IF IsStored(fp)
             THEN StorePut(store, StoreKey(fp), StoreValue(fp))
             ELSE store

\* A variant that starts from the store already on disk (a merge).
BuildStore_merge(previous, properties) ==
    StoreFrom(previous, properties, Len(properties))

\* Lines 862-877: var store = {} and the loop. previous is what
\* config/.local_store holds.
BuildStore(previous, properties) ==
    StoreFrom(EmptyStore, properties, Len(properties))

AbsentFile == [exists |-> FALSE, store |-> EmptyStore]

\* A local store written by an earlier retrieve.
OldStoreFile ==
    [exists |-> TRUE,
     store |-> StorePut(EmptyStore, <<"Old", ".", "cls">>,
                        [fullName |-> <<"Old">>,
                         fileName |-> <<"unpackaged/classes/", "Old", "cls">>,
                         id |-> 0, mmState |-> "clean"])]

NoPrev == [resolved |-> FALSE, props |-> <<>>, file |-> AbsentFile]

StoreIdle ==
    /\ lsFile = AbsentFile
    /\ lsProps = <<>>
    /\ lsPc = "idle"
    /\ lsPrev = NoPrev

StoreInit ==
    /\ lsFile \in {AbsentFile, OldStoreFile}
    /\ lsProps = <<>>
    /\ lsPc = "idle"
    /\ lsPrev = NoPrev

\* _initLocalStore(fileProperties): the store is computed and
\* fs.outputFile is started.
_initLocalStore(fileProperties) ==
    /\ lsPc # "writing"
    /\ lsProps' = fileProperties
    /\ lsPc' = "writing"
    /\ lsPrev' = IF lsPc = "resolved"
                 THEN [resolved |-> TRUE, props |-> lsProps, file |-> lsFile]
                 ELSE NoPrev
    /\ UNCHANGED <<lsFile, vDelete, vCompile, vSync, vParse, vNew, vExist, vStash, vSession>>

\* fs.outputFile succeeds: the file holds JSON.stringify(store).
outputFile_done ==
    /\ lsPc = "writing"
    /\ lsFile' = [exists |-> TRUE, store |-> BuildStore(lsFile.store, lsProps)]
    /\ lsPc' = "resolved"
    /\ UNCHANGED <<lsProps, lsPrev, vDelete, vCompile, vSync, vParse, vNew, vExist, vStash, vSession>>

\* fs.outputFile fails: 'Could not write local store'.
outputFile_failed ==
    /\ lsPc = "writing"
    /\ lsPc' = "rejected"
    /\ UNCHANGED <<lsFile, lsProps, lsPrev, vDelete, vCompile, vSync, vParse, vNew, vExist, vStash, vSession>>

NextStore ==
    \/ \E fileProperties \in PropertyLists : _initLocalStore(fileProperties)
    \/ outputFile_done
    \/ outputFile_failed

(***************************************************************************)
(* initialize(true) (64-73), _initNew (158-189),                           *)
(* retrieveAndWriteToDisk (214-268)                                        *)
(***************************************************************************)
\* Two Project objects made for the same project name.
Instances == {1, 2}

NewProjectName == <<"Acme">>

\* opts.workspace: unset (undefined, '' or null) is the empty path.
WorkspaceOpts == { <<>>, <<"ws">> }

\* mm_workspace: an array of workspaces or one string.
WorkspaceSettings ==
    { [kind |-> "array", items |-> << <<"ws">>, <<"ws2">> >>],
      [kind |-> "string", items |-> << <<"ws">> >>] }

\* opts.package: not given, {} or a package of the caller.
UndefinedPackage == [kind |-> "undefined", types |-> <<>>]

CallerPackages ==
    { UndefinedPackage,
      [kind |-> "object", types |-> <<>>],
      [kind |-> "object", types |-> <<"CustomObject">>],
      [kind |-> "object", types |-> <<"ApexClass", "CustomObject">>] }

\* Lines 223-225.
DefaultPackage ==
    [kind |-> "array",
     types |-> <<"ApexClass", "ApexComponent", "ApexPage", "ApexTrigger",
                 "StaticResource">>]

\* self.package === {}: a comparison of identity with a fresh object, false
\* for every value.
IsFreshEmptyObject(package) == FALSE

\* A variant that adds the default types to whatever the caller gave.
PackageToRetrieve_merged(package) ==
    IF package.kind = "undefined"
    THEN DefaultPackage
    ELSE [kind |-> package.kind, types |-> package.types \o DefaultPackage.types]

\* Lines 222-226: self.package when describe() is called.
PackageToRetrieve(package) ==
    IF package.kind = "undefined" \/ IsFreshEmptyObject(package)
    THEN DefaultPackage
    ELSE package

\* Lines 162-178: the workspace _initNew settles on.
ResolvedWorkspace(workspace) ==
    IF workspace = <<>>
    THEN npConfig.items[1]
    ELSE workspace

\* The files _initConfig writes with fs.outputFile (lines 275-278):
\* _writeSettings, _writeSession, _writeDebug, _writeDescribe.
ConfigWrites == {".settings", ".session", ".debug", ".describe"}

\* created: this instance's mkdirSync(self.path) succeeded; writes: the
\* outputFile calls of _initConfig that have not called back yet.
NewInstance(workspace, package) ==
    [optsWorkspace |-> workspace, workspace |-> workspace, path |-> <<>>,
     optsPackage |-> package, package |-> package, hasId |-> FALSE,
     initOrder |-> 0, initResult |-> "none", initError |-> "",
     existedAtInit |-> FALSE, writtenAtInit |-> FALSE,
     pc |-> "constructed", promise |-> "none", calls |-> <<>>,
     created |-> FALSE, writes |-> {}]

NewIdle ==
    /\ npDisk = {}
    /\ npConfig = [kind |-> "string", items |-> << <<"ws">> >>]
    /\ npWritten = FALSE
    /\ npInits = 0
    /\ inst = [p \in Instances |-> NewInstance(<<>>, UndefinedPackage)]

NewInit ==
    /\ npDisk \in { {}, {<<"ws">>}, {<<"ws">>, <<"ws">> \o NewProjectName} }
    /\ npConfig \in WorkspaceSettings
    /\ npWritten = FALSE
    /\ npInits = 0
    /\ \E w \in [Instances -> WorkspaceOpts], k \in [Instances -> CallerPackages] :
          inst = [p \in Instances |-> NewInstance(w[p], k[p])]

\* A variant that does not look at the disk.
_initNew_noCheck(p) ==
    /\ inst[p].pc = "constructed"
    /\ LET workspace == ResolvedWorkspace(inst[p].workspace)
           path == workspace \o NewProjectName
       IN  /\ npDisk' = npDisk \cup {workspace}
           /\ npWritten' = (npWritten \/ workspace \notin npDisk)
           /\ inst' = [inst EXCEPT ![p] =
                 [@ EXCEPT !.workspace = workspace, !.path = path,
                           !.initOrder = npInits + 1,
                           !.existedAtInit = (path \in npDisk),
                           !.writtenAtInit = npWritten,
                           !.hasId = TRUE, !.initResult = "resolved",
                           !.pc = "ready"]]
    /\ npInits' = npInits + 1
    /\ UNCHANGED <<npConfig, vDelete, vCompile, vSync, vStore, vParse, vExist, vStash, vSession>>

\* initialize(true): _initNew() makes the workspace directory if it is
\* missing, sets self.path and rejects if that directory exists, or sets
\* self.id and resolves.
_initNew(p) ==
    /\ inst[p].pc = "constructed"
    /\ LET workspace == ResolvedWorkspace(inst[p].workspace)
           path == workspace \o NewProjectName
       IN  /\ npDisk' = npDisk \cup {workspace}
           /\ npWritten' = (npWritten \/ workspace \notin npDisk)
           /\ inst' = [inst EXCEPT ![p] =
                 IF path \in npDisk
                 THEN [@ EXCEPT !.workspace = workspace, !.path = path,
                                !.initOrder = npInits + 1,
                                !.existedAtInit = TRUE,
                                !.writtenAtInit = npWritten,
                                !.initResult = "rejected",
                                !.initError = "Directory already exists!",
                                !.pc = "failed"]
                 ELSE [@ EXCEPT !.workspace = workspace, !.path = path,
                                !.initOrder = npInits + 1,
                                !.existedAtInit = FALSE,
                                !.writtenAtInit = npWritten,
                                !.hasId = TRUE, !.initResult = "resolved",
                                !.pc = "ready"]]
    /\ npInits' = npInits + 1
    /\ UNCHANGED <<npConfig, vDelete, vCompile, vSync, vStore, vParse, vExist, vStash, vSession>>

\* retrieveAndWriteToDisk(): rejects if self.path exists; otherwise the
\* package is defaulted and sfdcClient.describe() is called.
retrieveAndWriteToDisk(p) ==
    /\ inst[p].pc = "ready"
    /\ IF inst[p].path \in npDisk
       THEN inst' = [inst EXCEPT ![p].pc = "done", ![p].promise = "rejected"]
       ELSE inst' = [inst EXCEPT ![p].pc = "describing", ![p].promise = "pending",
                                 ![p].package = PackageToRetrieve(@),
                                 ![p].calls = Append(@, [op |-> "describe",
                                                         arg |-> UndefinedPackage])]
    /\ UNCHANGED <<npDisk, npConfig, npWritten, npInits,
                   vDelete, vCompile, vSync, vStore, vParse, vExist, vStash, vSession>>

\* describe() resolves: retrieveUnpackaged(self.package) is called.
np_describe_resolved(p) ==
    /\ inst[p].pc = "describing"
    /\ inst' = [inst EXCEPT ![p].pc = "retrieving",
                            ![p].calls = Append(@, [op |-> "retrieveUnpackaged",
                                                    arg |-> inst[p].package])]
    /\ UNCHANGED <<npDisk, npConfig, npWritten, npInits,
                   vDelete, vCompile, vSync, vStore, vParse, vExist, vStash, vSession>>

\* Lines 258-263, the catch: self.path is removed if it exists, and the
\* promise rejected.
np_catch(p) ==
    /\ npDisk' = npDisk \ {inst[p].path}
    /\ npWritten' = (npWritten \/ inst[p].path \in npDisk)
    /\ inst' = [inst EXCEPT ![p].pc = "done", ![p].promise = "rejected"]

\* retrieveUnpackaged resolves: self.path and self.path/config are made
\* (mkdirSync throws if self.path exists by now, which the catch handles),
\* and util.writeStream is called.
np_retrieve_resolved(p) ==
    /\ inst[p].pc = "retrieving"
    /\ IF inst[p].path \in npDisk
       THEN np_catch(p)
       ELSE /\ npDisk' = npDisk \cup {inst[p].path}
            /\ npWritten' = TRUE
            /\ inst' = [inst EXCEPT ![p].pc = "extracting", ![p].created = TRUE]
    /\ UNCHANGED <<npConfig, npInits,
                   vDelete, vCompile, vSync, vStore, vParse, vExist, vStash, vSession>>

\* util.writeStream resolves: the archive is on disk below self.path,
\* unpackaged is renamed to src, and _initConfig() starts its four
\* outputFile writes and calls util.storePassword. When storePassword
\* returns false its promise is rejected at once, Q.all rejects, and the
\* catch of retrieveAndWriteToDisk runs while the four writes are in flight.
np_extract_resolved(p, stored) ==
    /\ inst[p].pc = "extracting"
    /\ npWritten' = TRUE
    /\ IF stored
       THEN /\ npDisk' = npDisk \cup {inst[p].path}
            /\ inst' = [inst EXCEPT ![p].pc = "config", ![p].writes = ConfigWrites]
       ELSE /\ npDisk' = npDisk \ {inst[p].path}
            /\ inst' = [inst EXCEPT ![p].pc = "done", ![p].promise = "rejected",
                                    ![p].writes = ConfigWrites]
    /\ UNCHANGED <<npConfig, npInits,
                   vDelete, vCompile, vSync, vStore, vParse, vExist, vStash, vSession>>

\* One fs.outputFile of _initConfig calls back. outputFile makes the missing
\* directories of its file before it writes, so a write that succeeds
\* leaves self.path on disk. While _initConfig is waiting (Q.all), the
\* first write to fail rejects it and the catch runs; the last write to
\* succeed resolves it and _initLocalStore starts its own outputFile. Once
\* the promise is settled the callback changes the disk only.
np_write_done(p, file, ok) ==
    /\ file \in inst[p].writes
    /\ npWritten' = TRUE
    /\ npDisk' = IF ok THEN npDisk \cup {inst[p].path}
                 ELSE IF inst[p].pc = "config" THEN npDisk \ {inst[p].path}
                 ELSE npDisk
    /\ inst' = [inst EXCEPT
                  ![p].writes = @ \ {file},
                  ![p].pc = IF @ # "config" THEN @
                            ELSE IF ~ok THEN "done"
                            ELSE IF inst[p].writes = {file} THEN "store"
                            ELSE "config",
                  ![p].promise = IF inst[p].pc = "config" /\ ~ok
                                 THEN "rejected" ELSE @]
    /\ UNCHANGED <<npConfig, npInits,
                   vDelete, vCompile, vSync, vStore, vParse, vExist, vStash, vSession>>

\* The outputFile of _initLocalStore succeeds: config/.local_store is
\* written and the promise resolved.
np_step_resolved(p) ==
    /\ inst[p].pc = "store"
    /\ inst' = [inst EXCEPT ![p].pc = "done", ![p].promise = "resolved"]
    /\ npDisk' = npDisk \cup {inst[p].path}
    /\ npWritten' = TRUE
    /\ UNCHANGED <<npConfig, npInits,
                   vDelete, vCompile, vSync, vStore, vParse, vExist, vStash, vSession>>

\* describe, retrieveUnpackaged, util.writeStream or the write of the local
\* store rejects: the catch runs.
np_step_rejected(p) ==
    /\ inst[p].pc \in {"describing", "retrieving", "extracting", "store"}
    /\ np_catch(p)
    /\ UNCHANGED <<npConfig, npInits,
                   vDelete, vCompile, vSync, vStore, vParse, vExist, vStash, vSession>>

NextNew ==
    \E p \in Instances :
        \/ _initNew(p)
        \/ retrieveAndWriteToDisk(p)
        \/ np_describe_resolved(p)
        \/ np_retrieve_resolved(p)
        \/ \E stored \in BOOLEAN : np_extract_resolved(p, stored)
        \/ \E file \in ConfigWrites, ok \in BOOLEAN : np_write_done(p, file, ok)
        \/ np_step_resolved(p)
        \/ np_step_rejected(p)

(***************************************************************************)
(* initialize(false) (43-62), _initExisting (82-152), _isValid (199-207),  *)
(* the readers of config/ (642-782, 937-950)                               *)
(***************************************************************************)
ConfigFiles ==
    {"config/.settings", "config/.session", "config/.describe",
     "config/.local_store", "config/.org_metadata"}

\* util.getPassword(id): a password, nothing, or an exception.
PasswordResults == {"password", "empty", "throws"}

\* self.settings, self.describe, self.localStore and self.orgMetadata before
\* anything is loaded.
NothingLoaded ==
    [settings |-> [loaded |-> FALSE, password |-> "undefined"],
     describe |-> "undefined", localStore |-> "undefined",
     orgMetadata |-> "undefined", clientSession |-> "undefined"]

ExistIdle ==
    /\ exFiles = {}
    /\ exInput = [settingsParse |-> TRUE, password |-> "password"]
    /\ exPc = "idle"
    /\ exOutcome = "none"
    /\ exError = ""
    /\ exTrace = <<>>
    /\ exSelf = NothingLoaded

ExistInit ==
    /\ exFiles \in SUBSET ConfigFiles
    /\ exInput \in [settingsParse : BOOLEAN, password : PasswordResults]
    /\ exPc = "idle"
    /\ exOutcome = "none"
    /\ exError = ""
    /\ exTrace = <<>>
    /\ exSelf = NothingLoaded

\* _isValid(): config/.settings exists under the project's directory.
_isValid == "config/.settings" \in exFiles

\* What _initExisting() hands back: for an invalid project the value of
\* 'return deferred.reject(...)', which is undefined; otherwise its promise.
_initExisting_returns == IF ~_isValid THEN "undefined" ELSE "promise"

\* initialize() of an existing project: _initExisting() is called and
\* .then() is called on what it returns. For an invalid project that value
\* is undefined and initialize throws a TypeError; otherwise the chain
\* starts with _getSettings().
initialize ==
    /\ exPc = "idle"
    /\ IF _initExisting_returns = "undefined"
       THEN /\ exPc' = "done"
            /\ exOutcome' = "threw"
            /\ exError' = "TypeError"
            /\ exTrace' = <<>>
       ELSE /\ exPc' = "settings"
            /\ exOutcome' = "none"
            /\ exError' = ""
            /\ exTrace' = <<"_getSettings">>
    /\ UNCHANGED <<exFiles, exInput, exSelf, vDelete, vCompile, vSync, vStore, vParse, vNew, vStash, vSession>>

\* A step of the chain fails: _initExisting rejects and initialize rejects
\* with 'Could not initiate existing Project instance: ' and the error.
ExistReject(error) ==
    /\ exPc' = "done"
    /\ exOutcome' = "rejected"
    /\ exError' = error
    /\ exTrace' = exTrace

ExistGoto(pc, step) ==
    /\ exPc' = pc
    /\ exOutcome' = exOutcome
    /\ exError' = exError
    /\ exTrace' = Append(exTrace, step)

\* A variant of _getSettings that goes on whenever util.getPassword
\* returns, with or without a password.
ex_getSettings_anyPassword ==
    /\ exPc = "settings"
    /\ IF ~exInput.settingsParse
       THEN ExistReject("settings unreadable") /\ exSelf' = exSelf
       ELSE IF exInput.password = "throws"
            THEN /\ ExistReject("Could not get project settings")
                 /\ exSelf' = [exSelf EXCEPT !.settings.loaded = TRUE]
            ELSE /\ ExistGoto("session", "_getCachedSession")
                 /\ exSelf' = [exSelf EXCEPT !.settings =
                                  [loaded |-> TRUE, password |-> exInput.password]]
    /\ UNCHANGED <<exFiles, exInput, vDelete, vCompile, vSync, vStore, vParse, vNew, vStash, vSession>>

\* _getSettings: fs.readJson of config/.settings rejects on an error;
\* otherwise self.settings is set and _getPassword is called, which rejects
\* when util.getPassword throws or returns nothing; with a password,
\* self.settings.password is set and the settings resolved.
ex_getSettings ==
    /\ exPc = "settings"
    /\ IF ~exInput.settingsParse
       THEN ExistReject("settings unreadable") /\ exSelf' = exSelf
       ELSE IF exInput.password \in {"empty", "throws"}
            THEN /\ ExistReject("Could not get project settings")
                 /\ exSelf' = [exSelf EXCEPT !.settings.loaded = TRUE]
            ELSE /\ ExistGoto("session", "_getCachedSession")
                 /\ exSelf' = [exSelf EXCEPT !.settings =
                                  [loaded |-> TRUE, password |-> exInput.password]]
    /\ UNCHANGED <<exFiles, exInput, vDelete, vCompile, vSync, vStore, vParse, vNew, vStash, vSession>>

\* fs.existsSync(path): false when no path is given.
fs_existsSync(path) == path # "undefined" /\ path \in exFiles

\* _getCachedSession: fs.existsSync() is called without a path (657). When
\* it is true config/.session is read, and its content resolved or the
\* read error rejected; when it is false {} is resolved. The next handler
\* makes the client from the session resolved, the settings and the
\* project, and initializes it.
ex_getCachedSession ==
    /\ exPc = "session"
    /\ IF fs_existsSync("undefined")
       THEN IF "config/.session" \in exFiles
            THEN /\ ExistGoto("client", "sfdcClient.initialize")
                 /\ exSelf' = [exSelf EXCEPT !.clientSession = "file"]
            ELSE /\ ExistReject("session unreadable")
                 /\ exSelf' = exSelf
       ELSE /\ ExistGoto("client", "sfdcClient.initialize")
            /\ exSelf' = [exSelf EXCEPT !.clientSession = "{}"]
    /\ UNCHANGED <<exFiles, exInput, vDelete, vCompile, vSync, vStore, vParse, vNew, vStash, vSession>>

\* sfdcClient.initialize() settles.
ex_clientInitialized(ok) ==
    /\ exPc = "client"
    /\ IF ok
       THEN ExistGoto("describe", "_getDescribe")
       ELSE ExistReject("client")
    /\ UNCHANGED <<exFiles, exInput, exSelf, vDelete, vCompile, vSync, vStore, vParse, vNew, vStash, vSession>>

\* A variant of _getDescribe that resolves with nothing loaded when the
\* file is absent.
ex_getDescribe_defaultEmpty ==
    /\ exPc = "describe"
    /\ ExistGoto("local_store", "_getLocalStore")
    /\ exSelf' = IF "config/.describe" \in exFiles
                 THEN [exSelf EXCEPT !.describe = "file"]
                 ELSE exSelf
    /\ UNCHANGED <<exFiles, exInput, vDelete, vCompile, vSync, vStore, vParse, vNew, vStash, vSession>>

\* _getDescribe: fs.readJson of config/.describe; an error rejects.
ex_getDescribe ==
    /\ exPc = "describe"
    /\ IF "config/.describe" \in exFiles
       THEN /\ ExistGoto("local_store", "_getLocalStore")
            /\ exSelf' = [exSelf EXCEPT !.describe = "file"]
       ELSE /\ ExistReject("describe unreadable")
            /\ exSelf' = exSelf
    /\ UNCHANGED <<exFiles, exInput, vDelete, vCompile, vSync, vStore, vParse, vNew, vStash, vSession>>

\* _getLocalStore: fs.readJson of config/.local_store; an error rejects.
\* _getClientProjectSettings always resolves.
ex_getLocalStore ==
    /\ exPc = "local_store"
    /\ IF "config/.local_store" \in exFiles
       THEN /\ ExistGoto("org_metadata", "_getOrgMetadata")
            /\ exSelf' = [exSelf EXCEPT !.localStore = "file"]
       ELSE /\ ExistReject("local store unreadable")
            /\ exSelf' = exSelf
    /\ UNCHANGED <<exFiles, exInput, vDelete, vCompile, vSync, vStore, vParse, vNew, vStash, vSession>>

\* _getOrgMetadata: when config/.org_metadata is absent [] is resolved and
\* self.orgMetadata is left unset; otherwise self.orgMetadata is its
\* content. The chain resolves.
ex_getOrgMetadata ==
    /\ exPc = "org_metadata"
    /\ exPc' = "done"
    /\ exOutcome' = "resolved"
    /\ exSelf' = IF "config/.org_metadata" \in exFiles
                 THEN [exSelf EXCEPT !.orgMetadata = "file"]
                 ELSE exSelf
    /\ UNCHANGED <<exError, exTrace, exFiles, exInput,
                   vDelete, vCompile, vSync, vStore, vParse, vNew, vStash, vSession>>

NextExist ==
    \/ initialize
    \/ ex_getSettings
    \/ ex_getCachedSession
    \/ \E ok \in BOOLEAN : ex_clientInitialized(ok)
    \/ ex_getDescribe
    \/ ex_getLocalStore
    \/ ex_getOrgMetadata

(***************************************************************************)
(* _stash (612-629), _removeStash (635-639)                                *)
(***************************************************************************)
TmpDirs == 1..MaxStashes

\* A variant of the copy that puts nothing into the new directory.
StashCopy_empty(tree) == [exists |-> TRUE, files |-> EmptyFiles]

\* Lines 621-624: the directory tmp.dir made, after fs.copySync(srcPath,
\* newPath) when src/ exists and as it was made otherwise.
StashCopy(tree) ==
    IF tree.exists
    THEN [exists |-> TRUE, files |-> tree.files]
    ELSE [exists |-> TRUE, files |-> EmptyFiles]

StashIdle ==
    /\ stSrc = AbsentTree
    /\ stTmp = [d \in TmpDirs |-> AbsentTree]
    /\ stashPath = 0
    /\ stPc = "idle"
    /\ stLast = "none"
    /\ stRemoves = 0

StashInit ==
    /\ stSrc \in LocalTrees
    /\ stTmp = [d \in TmpDirs |-> AbsentTree]
    /\ stashPath = 0
    /\ stPc = "idle"
    /\ stLast = "none"
    /\ stRemoves = 0

\* The directories tmp.dir can still make.
FreeTmpDirs == {d \in TmpDirs : ~stTmp[d].exists /\ d # stashPath}

\* _stash(): tmp.dir is started.
_stash ==
    /\ stPc # "creating"
    /\ FreeTmpDirs # {}
    /\ stPc' = "creating"
    /\ UNCHANGED <<stSrc, stTmp, stashPath, stLast, stRemoves,
                   vDelete, vCompile, vSync, vStore, vParse, vNew, vExist, vSession>>

\* The callback of tmp.dir: an error rejects; otherwise the new directory
\* becomes self._stashPath, src/ is copied into it if it exists, and the
\* promise is resolved.
_tempDirCreated(err) ==
    /\ stPc = "creating"
    /\ IF err
       THEN /\ stPc' = "rejected"
            /\ stLast' = "tmp.dir failed"
            /\ UNCHANGED <<stTmp, stashPath>>
       ELSE LET newPath == CHOOSE d \in FreeTmpDirs : \A e \in FreeTmpDirs : d <= e
            IN  /\ stashPath' = newPath
                /\ stTmp' = [stTmp EXCEPT ![newPath] = StashCopy(stSrc)]
                /\ stPc' = "resolved"
                /\ stLast' = "stashed"
    /\ UNCHANGED <<stSrc, stRemoves,
                   vDelete, vCompile, vSync, vStore, vParse, vNew, vExist, vSession>>

\* _removeStash(): the directory at self._stashPath is removed if it
\* exists; fs.existsSync is false for a path that is undefined.
_removeStash ==
    /\ stRemoves < MaxRemoves
    /\ stRemoves' = stRemoves + 1
    /\ stLast' = "removed"
    /\ stTmp' = IF stashPath # 0 /\ stTmp[stashPath].exists
                THEN [stTmp EXCEPT ![stashPath] = AbsentTree]
                ELSE stTmp
    /\ UNCHANGED <<stSrc, stashPath, stPc,
                   vDelete, vCompile, vSync, vStore, vParse, vNew, vExist, vSession>>

NextStash ==
    \/ _stash
    \/ \E err \in BOOLEAN : _tempDirCreated(err)
    \/ _removeStash

(***************************************************************************)
(* The 'sfdcclient-cache-refresh' listener (121-128), _writeSession        *)
(* (785-805)                                                               *)
(***************************************************************************)
InstanceUrls == {"u1", "u2"}

\* The session of the client after its n-th renewal.
Sessions ==
    [accessToken : 0..(MaxRenewals + 1), instanceUrl : InstanceUrls]

NoSessionFile == [exists |-> FALSE, session |-> [accessToken |-> 0, instanceUrl |-> "u1"]]

SessionIdle ==
    /\ seClient = [accessToken |-> 0, instanceUrl |-> "u1"]
    /\ seFile = NoSessionFile
    /\ seWrites = {}
    /\ seRenewals = 0
    /\ seLastDone = 0
    /\ seOverlap = FALSE
    /\ seUncaught = FALSE

\* The project is loaded and its client initialized; config/.session is
\* absent or holds the session written when the project was made.
SessionInit ==
    /\ seClient \in {c \in Sessions : c.accessToken = 0}
    /\ seFile \in {NoSessionFile, [exists |-> TRUE, session |-> seClient]}
    /\ seWrites = {}
    /\ seRenewals = 0
    /\ seLastDone = 0
    /\ seOverlap = FALSE
    /\ seUncaught = FALSE

\* The client renews its token and emits 'sfdcclient-cache-refresh': the
\* listener calls _writeSession(), which reads the client's accessToken and
\* instanceUrl and starts fs.outputFile. (self._getCachedSession() is
\* called in the same breath and its promise passed to then(), which
\* ignores it.)
cache_refresh(url) ==
    /\ seRenewals < MaxRenewals
    /\ seRenewals' = seRenewals + 1
    /\ seClient' = [accessToken |-> seRenewals + 1, instanceUrl |-> url]
    /\ seWrites' = seWrites \cup {[n |-> seRenewals + 1, session |-> seClient']}
    /\ seOverlap' = (seOverlap \/ seWrites # {})
    /\ UNCHANGED <<seFile, seLastDone, seUncaught,
                   vDelete, vCompile, vSync, vStore, vParse, vNew, vExist, vStash>>

\* A variant of the write that serializes the client's session when the
\* write is carried out.
SessionWritten_readLate(w) == seClient

\* Line 797: what fs.outputFile puts into config/.session for write w, the
\* JSON of the session read when _writeSession was called.
SessionWritten(w) == w.session

\* One fs.outputFile calls back. Writes to the one file complete in any
\* order; each replaces the whole file. On an error _writeSession rejects
\* and the listener's catch throws, which done() rethrows.
writeSession_done(w, ok) ==
    /\ w \in seWrites
    /\ seWrites' = seWrites \ {w}
    /\ IF ok
       THEN /\ seFile' = [exists |-> TRUE, session |-> SessionWritten(w)]
            /\ seLastDone' = w.n
            /\ seUncaught' = seUncaught
       ELSE /\ seUncaught' = TRUE
            /\ UNCHANGED <<seFile, seLastDone>>
    /\ UNCHANGED <<seClient, seRenewals, seOverlap,
                   vDelete, vCompile, vSync, vStore, vParse, vNew, vExist, vStash>>

NextSession ==
    \/ \E url \in InstanceUrls : cache_refresh(url)
    \/ \E w \in seWrites, ok \in BOOLEAN : writeSession_done(w, ok)

(***************************************************************************)
(* Specifications                                                          *)
(***************************************************************************)
InitDelete ==
    /\ DeleteInit /\ CompileIdle /\ SyncIdle /\ StoreIdle /\ ParseIdle /\ NewIdle /\ ExistIdle
    /\ StashIdle /\ SessionIdle

SpecDelete == InitDelete /\ [][NextDelete]_vars

InitCompile ==
    /\ CompileInit /\ DeleteIdle /\ SyncIdle /\ StoreIdle /\ ParseIdle /\ NewIdle /\ ExistIdle
    /\ StashIdle /\ SessionIdle

SpecCompile == InitCompile /\ [][NextCompile]_vars

\* src/package.xml is there when src/ holds it.
InitSync ==
    /\ SyncInit
    /\ pkgFile \in PackageFilesOf(src)
    /\ pkgPc = "idle" /\ pkg = EmptyPkg /\ pkgParser = NoParser
    /\ DeleteIdle /\ CompileIdle /\ StoreIdle /\ NewIdle /\ ExistIdle /\ StashIdle /\ SessionIdle

SpecSync == InitSync /\ [][NextSync]_vars

InitSyncConcurrent ==
    /\ SyncInit
    /\ src \in {AbsentTree, [exists |-> TRUE, files |-> [p \in RelPaths |-> 0]]}
    /\ pkgFile \in PackageFilesOf(src)
    /\ pkgPc = "idle" /\ pkg = EmptyPkg /\ pkgParser = NoParser
    /\ DeleteIdle /\ CompileIdle /\ StoreIdle /\ NewIdle /\ ExistIdle /\ StashIdle /\ SessionIdle

SpecSyncConcurrent == InitSyncConcurrent /\ [][NextSyncConcurrent]_vars

InitStore ==
    /\ StoreInit /\ DeleteIdle /\ CompileIdle /\ SyncIdle /\ ParseIdle /\ NewIdle /\ ExistIdle
    /\ StashIdle /\ SessionIdle

SpecStore == InitStore /\ [][NextStore]_vars

InitParse ==
    /\ ParseInit /\ DeleteIdle /\ CompileIdle /\ SyncIdle /\ StoreIdle /\ NewIdle /\ ExistIdle
    /\ StashIdle /\ SessionIdle

SpecParse == InitParse /\ [][NextParse]_vars

InitNew ==
    /\ NewInit /\ DeleteIdle /\ CompileIdle /\ SyncIdle /\ StoreIdle /\ ParseIdle
    /\ ExistIdle /\ StashIdle /\ SessionIdle

SpecNew == InitNew /\ [][NextNew]_vars

InitExist ==
    /\ ExistInit /\ DeleteIdle /\ CompileIdle /\ SyncIdle /\ StoreIdle /\ ParseIdle
    /\ NewIdle /\ StashIdle /\ SessionIdle

SpecExist == InitExist /\ [][NextExist]_vars

InitStash ==
    /\ StashInit /\ DeleteIdle /\ CompileIdle /\ SyncIdle /\ StoreIdle /\ ParseIdle
    /\ NewIdle /\ ExistIdle /\ SessionIdle

SpecStash == InitStash /\ [][NextStash]_vars

InitSession ==
    /\ SessionInit /\ DeleteIdle /\ CompileIdle /\ SyncIdle /\ StoreIdle /\ ParseIdle
    /\ NewIdle /\ ExistIdle /\ StashIdle

SpecSession == InitSession /\ [][NextSession]_vars

(***************************************************************************)
(* Claims                                                                  *)
(***************************************************************************)
\* The files of the batch (sidecars included) that were on disk at the call.
BatchFilesAtCall == delPre \cap UNION {LocalPathsOf(m) : m \in delBatch}

\* C1: while deleteFromServer's remote delete has not resolved (the staged
\* delete or the deploy is pending, or either one rejected), every local
\* file of the batch, sidecar files included, that existed when the
\* operation was called still exists on disk.
C1_LocalFilesKeptUntilResolved ==
    delPc \in {"staging", "executing", "rejected"}
        => BatchFilesAtCall \subseteq delDisk

\* A delete rejected with local files (one with a sidecar) in its batch.
C1_Witness ==
    /\ delPc = "rejected"
    /\ \E m \in delBatch :
          /\ delHasMeta[m]
          /\ {<<m, "file">>, <<m, "meta">>} \subseteq BatchFilesAtCall

\* path lies within the directory root: it is root itself or starts with
\* root followed by a separator.
IsWithin(root, path) ==
    \/ path = root
    \/ /\ Len(path) > Len(root)
       /\ SubSeq(path, 1, Len(root) + 1) = root \o <<"/">>

CompileSubmitted == cmpPc \in {"submitted", "resolved", "rejected"}

\* C2: compileMetadata submits a batch to the remote client only when every
\* item's path lies within the project root (containing the root's string
\* somewhere is not enough); a batch with an item outside the root makes no
\* remote call.
C2_SubmittedOnlyWithinRoot ==
    cmpCalls # <<>> =>
        \A i \in 1..Len(cmpBatch) : IsWithin(ProjectPath, cmpBatch[i].path)

\* C6: a compileMetadata that makes a remote call makes exactly one, with
\* the whole batch, and the call is compileWithToolingApi if and only if
\* mm_compile_with_tooling_api is on and every item is tooling-eligible;
\* otherwise it is compileWithMetadataApi. A compileMetadata that throws
\* makes none.
C6_OneCompileCallByFlagAndEligibility ==
    /\ CompileSubmitted =>
          cmpCalls = << [method |->
                            IF cmpFlag /\ (\A i \in 1..Len(cmpBatch) :
                                              cmpBatch[i].tooling)
                            THEN "compileWithToolingApi"
                            ELSE "compileWithMetadataApi",
                         metadata |-> cmpBatch] >>
    /\ ~CompileSubmitted => cmpCalls = <<>>

\* The flag is on and one of two items is not eligible: the whole batch
\* went to the metadata API.
C6_Witness ==
    /\ cmpPc = "submitted"
    /\ cmpFlag
    /\ Len(cmpBatch) = 2
    /\ cmpBatch[1].tooling /\ ~cmpBatch[2].tooling
    /\ cmpCalls[1].method = "compileWithMetadataApi"

\* The operation of slot 1 is a clean or an edit that resolved.
ReplaceResolved ==
    /\ ops[1].kind \in {"clean", "edit"}
    /\ ops[1].promise = "resolved"

\* C3: after clean() or edit(pkg) resolves, a file that was in src/ before
\* the operation is in src/ only if it is in the archive this operation
\* retrieved.
C3_NoSurvivorOutsideArchive ==
    ReplaceResolved =>
        \A p \in DOMAIN ops[1].preSrc.files :
            p \in DOMAIN src.files => p \in ops[1].archive.files

RefreshResolved ==
    /\ ops[1].kind = "refresh"
    /\ ops[1].promise = "resolved"

\* C4: after refreshFromServer resolves, every file of src/ that is not in
\* the retrieve response is still there with the content it had before the
\* call; every file of the response whose name is not package.xml is at
\* its place under src/ with the retrieved content; and a package.xml of
\* src/ is what it was before the call.
C4_RefreshSplicesResponseOnly ==
    RefreshResolved =>
        /\ \A p \in DOMAIN ops[1].preSrc.files :
              (p \notin ops[1].archive.files \/ path_basename(p) = "package.xml")
                  => /\ p \in DOMAIN src.files
                     /\ src.files[p] = ops[1].preSrc.files[p]
        /\ \A p \in ops[1].archive.files :
              path_basename(p) # "package.xml"
                  => /\ p \in DOMAIN src.files
                     /\ src.files[p] = ops[1].tag
        /\ \A p \in DOMAIN src.files :
              p \in (DOMAIN ops[1].preSrc.files) \cup ops[1].archive.files

\* A refresh resolved after an earlier failed run had left a scratch
\* directory: it overwrote one file, left another alone and skipped the
\* package.xml of the response.
C4_Witness ==
    /\ RefreshResolved
    /\ ops[1].tag = 2
    /\ ops[1].archive.files = {<<"package.xml">>, <<"classes", "A.cls">>}
    /\ DOMAIN ops[1].preSrc.files = RelPaths
    /\ src.files[<<"classes", "A.cls">>] = 2
    /\ src.files[<<"pages", "B.page">>] = 0
    /\ src.files[<<"package.xml">>] = 0

\* The entries of a list that are classifiable and are not the package
\* descriptor.
Indexable(properties) ==
    {i \in 1..Len(properties) :
        /\ getTypeByPath(properties[i].fileName).defined
        /\ \A j \in 1..Len(properties[i].fullName) :
              properties[i].fullName[j] # "package.xml"}

\* C5: _initLocalStore is idempotent and a full replace: the map written
\* for a list F has exactly the keys fullName+'.'+suffix of the entries of F
\* that are classifiable and are not the package descriptor, each with an
\* entry of F for that key tagged clean, whatever the local store held
\* before; and a second application with the same F leaves the file as the
\* first one wrote it.
C5_RebuildIsFullReplaceAndIdempotent ==
    lsPc = "resolved" =>
        /\ lsFile.exists
        /\ DOMAIN lsFile.store =
              {lsProps[i].fullName \o <<".", getTypeByPath(lsProps[i].fileName).suffix>> :
                  i \in Indexable(lsProps)}
        /\ \A k \in DOMAIN lsFile.store :
              /\ lsFile.store[k].mmState = "clean"
              /\ \E i \in Indexable(lsProps) :
                    /\ lsProps[i].fullName = lsFile.store[k].fullName
                    /\ lsProps[i].fileName = lsFile.store[k].fileName
                    /\ lsProps[i].id = lsFile.store[k].id
        /\ (lsPrev.resolved /\ lsPrev.props = lsProps) => lsFile = lsPrev.file

\* The same list, with an indexable entry, an unclassifiable one or the
\* package descriptor, applied a second time.
C5_Witness ==
    /\ lsPc = "resolved"
    /\ lsPrev.resolved /\ lsPrev.props = lsProps
    /\ Len(lsProps) = 2
    /\ Indexable(lsProps) = {1}

\* The <types> blocks of the document that have a <name>, by position.
DocChildren == XmlChildren(pkgFile.tokens, Len(pkgFile.tokens))

NamedTypes ==
    {b \in 1..Len(DocChildren) :
        /\ DocChildren[b].name = "types"
        /\ \E i \in 1..Len(DocChildren[b].children) :
              DocChildren[b].children[i].name = "name"}

FirstNameOf(b) ==
    LET nodes == DocChildren[b].children
    IN  nodes[CHOOSE i \in 1..Len(nodes) :
                 /\ nodes[i].name = "name"
                 /\ \A j \in 1..(i - 1) : nodes[j].name # "name"].val

IsMembers(node) == node.name = "members"

\* The <members> values of a block, in document order.
MemberValsOf(b) ==
    LET ms == SelectSeq(DocChildren[b].children, IsMembers)
    IN  [i \in 1..Len(ms) |-> ms[i].val]

HasWildcard(b) == \E i \in 1..Len(MemberValsOf(b)) : MemberValsOf(b)[i] = "*"

\* What the claim says the block's type maps to.
BlockMapsAsClaimed(b) ==
    /\ FirstNameOf(b) \in DOMAIN pkg
    /\ IF HasWildcard(b)
       THEN pkg[FirstNameOf(b)].wild
       ELSE /\ ~pkg[FirstNameOf(b)].wild
            /\ pkg[FirstNameOf(b)].members = MemberValsOf(b)

\* C7 as stated: for every types block, the type named by its first <name>
\* maps to '*' when one of its <members> is '*', and to the list of its
\* member values in document order otherwise.
C7_EveryBlockMapsAsClaimed ==
    pkgPc = "resolved" => \A b \in NamedTypes : BlockMapsAsClaimed(b)

\* No later types block has the same type key.
IsLastForItsType(b) ==
    \A c \in NamedTypes : c > b => FirstNameOf(c) # FirstNameOf(b)

\* C7 amended: the statement holds for every types block that is not
\* followed by another types block with the same type key (a later block
\* replaces the entry of an earlier one); nothing but the first <name>
\* values of the types blocks becomes a type key.
C7_LastBlockOfATypeMapsAsClaimed ==
    pkgPc = "resolved" =>
        /\ \A b \in NamedTypes : IsLastForItsType(b) => BlockMapsAsClaimed(b)
        /\ \A k \in DOMAIN pkg :
              k = "undefined" \/ \E b \in NamedTypes : k = FirstNameOf(b)

\* A block whose members start with Foo, '*': its type maps to '*' alone.
C7_Witness ==
    /\ pkgPc = "resolved"
    /\ \E b \in NamedTypes :
          /\ Len(MemberValsOf(b)) >= 2
          /\ MemberValsOf(b)[1] = "Foo"
          /\ MemberValsOf(b)[2] = "*"
          /\ pkg[FirstNameOf(b)] = [wild |-> TRUE, members |-> <<>>]

\* The arguments of the retrieveUnpackaged calls instance p has made.
RetrieveArgs(p) ==
    {inst[p].calls[i].arg : i \in {j \in 1..Len(inst[p].calls) :
                                      inst[p].calls[j].op = "retrieveUnpackaged"}}

FiveTypes ==
    {"ApexClass", "ApexComponent", "ApexPage", "ApexTrigger", "StaticResource"}

\* C8: the package retrieveAndWriteToDisk passes to retrieveUnpackaged is
\* exactly the five default types when the caller gave no package, and is
\* the caller's package, unchanged, when the caller gave a non-empty one.
C8_DefaultPackageOnlyWithoutCallerPackage ==
    \A p \in Instances :
        \A arg \in RetrieveArgs(p) :
            /\ inst[p].optsPackage.kind = "undefined" =>
                  /\ {arg.types[i] : i \in 1..Len(arg.types)} = FiveTypes
                  /\ Len(arg.types) = 5
            /\ (inst[p].optsPackage.kind = "object"
                   /\ inst[p].optsPackage.types # <<>>) =>
                  arg = inst[p].optsPackage

\* One instance without a package and one with a package of its own have
\* both called retrieveUnpackaged.
C8_Witness ==
    \E p, q \in Instances :
        /\ inst[p].optsPackage.kind = "undefined"
        /\ RetrieveArgs(p) # {}
        /\ inst[q].optsPackage.types = <<"ApexClass", "CustomObject">>
        /\ RetrieveArgs(q) # {}

\* C9 as stated: a new-project initialization whose directory W/P does not
\* exist resolves the path to W/P, and a second one for the same W and P,
\* attempted before anything has been written to disk, fails with
\* 'Directory already exists!'.
C9_SecondInitFailsBeforeAnyWrite ==
    \A p, q \in Instances :
        (/\ inst[p].initOrder = 1 /\ inst[p].initResult = "resolved"
         /\ inst[q].initOrder = 2 /\ inst[q].path = inst[p].path
         /\ ~inst[q].writtenAtInit)
            => /\ inst[q].initResult = "rejected"
               /\ inst[q].initError = "Directory already exists!"

\* C9 amended: a new-project initialization resolves the path to W/P and
\* succeeds when the directory W/P is not on disk at that moment, and fails
\* with 'Directory already exists!' exactly when W/P is on disk; a second
\* initialization for the same W and P made before the directory has been
\* written therefore succeeds as well.
C9_InitFailsIffDirectoryOnDisk ==
    \A p \in Instances :
        inst[p].initOrder > 0 =>
            /\ inst[p].path =
                  (IF inst[p].optsWorkspace = <<>>
                   THEN npConfig.items[1] ELSE inst[p].optsWorkspace)
                      \o NewProjectName
            /\ inst[p].existedAtInit =>
                  /\ inst[p].initResult = "rejected"
                  /\ inst[p].initError = "Directory already exists!"
            /\ ~inst[p].existedAtInit =>
                  /\ inst[p].initResult = "resolved"
                  /\ inst[p].hasId

\* A second initialization for the same path, made with nothing written to
\* disk since the start, that resolved like the first.
C9_Witness ==
    \E p, q \in Instances :
          /\ inst[p].initOrder = 1 /\ inst[p].initResult = "resolved"
          /\ inst[q].initOrder = 2 /\ inst[q].initResult = "resolved"
          /\ inst[q].path = inst[p].path
          /\ ~inst[q].writtenAtInit

\* C10: initialize() of an existing project whose config/.settings is
\* missing fails with an invalid-project failure delivered as the rejection
\* of the returned promise, before any settings read, client construction
\* or cache load.
C10_InvalidProjectRejectsPromise ==
    (exPc # "idle" /\ "config/.settings" \notin exFiles) =>
        /\ exOutcome = "rejected"
        /\ exError = "invalid project"
        /\ exTrace = <<>>

\* Instance p has called retrieveAndWriteToDisk on a path that did not
\* exist, and no other instance has started a creation on the same path.
CreatesAlone(p) ==
    /\ inst[p].calls # <<>>
    /\ \A q \in Instances \ {p} :
          inst[q].calls = <<>> \/ inst[q].path # inst[p].path

\* C11: when a creation has failed (its promise is rejected after it
\* started) and every write it started has called back, the project
\* directory does not exist.
C11_FailedCreationLeavesNoDirectory ==
    \A p \in Instances :
        (/\ CreatesAlone(p)
         /\ inst[p].promise = "rejected"
         /\ inst[p].writes = {})
        => inst[p].path \notin npDisk

\* The instance whose step this is.
Acts(p) == inst'[p] # inst[p]

\* C20: retrieveAndWriteToDisk rejects without a remote call and without
\* touching the disk when its directory exists at the call, and a step of
\* an instance removes the directory only if that instance made it.
C20_RemovesOnlyItsOwnDirectory ==
    [][\A p \in Instances :
          /\ (Acts(p) /\ inst[p].pc = "ready" /\ inst[p].path \in npDisk)
                => (/\ inst'[p].promise = "rejected"
                    /\ inst'[p].calls = <<>>
                    /\ npDisk' = npDisk)
          /\ (Acts(p) /\ inst[p].path \in npDisk /\ inst[p].path \notin npDisk')
                => inst[p].created]_vars

\* A step of the operation in slot s other than its call.
OpStep(s) ==
    \/ readFile_done
    \/ clean_parsed(s)
    \/ \E archive \in Archives : retrieve_resolved(s, archive)
    \/ retrieve_rejected(s)
    \/ extract_resolved(s)
    \/ \E written \in SUBSET RelPaths : extract_rejected(s, written)
    \/ \E rel \in RelPaths : refresh_file(s, rel)
    \/ refresh_error(s)
    \/ refresh_end(s)

\* C12: an operation whose promise is pending always has a step left to
\* take, so that its promise is settled in the end and never stays pending
\* with nothing left to run.
C12_PendingPromiseHasAStepLeft ==
    ops[1].promise = "pending" => ENABLED OpStep(1)

\* The tree an archive extracts to on its own.
FreshTree(op) ==
    [exists |-> TRUE, files |-> [p \in op.archive.files |-> op.tag]]

ReplaceCompleted ==
    /\ ops[1].kind \in {"clean", "edit"}
    /\ ops[1].pc = "done"

\* C15: when clean() or edit() has completed, src/ is the tree it was
\* before the call or the tree of the archive the operation retrieved.
C15_OldTreeOrNewTree ==
    ReplaceCompleted =>
        \/ src = ops[1].preSrc
        \/ ops[1].archive.hasDir /\ src = FreshTree(ops[1])

\* C16: refreshFromServer has no scratch directory when retrieveUnpackaged
\* is called and until the extraction ends; while files are left to handle
\* the scratch directory holds them; after a refresh that resolved there is
\* no scratch directory, and every file of src/ that differs from what it
\* was before the call has the content this refresh retrieved.
C16_ScratchRemovedBeforeAndAfter ==
    ops[1].kind = "refresh" =>
        /\ ops[1].pc \in {"retrieving", "extracting"} => ~scratch.exists
        /\ (ops[1].pc = "traversing" /\ ops[1].todo # {})
              => /\ scratch.exists
                 /\ ops[1].todo \subseteq DOMAIN scratch.files
        /\ ops[1].promise = "resolved"
              => /\ ~scratch.exists
                 /\ \A p \in DOMAIN src.files :
                       \/ /\ p \in DOMAIN ops[1].preSrc.files
                          /\ src.files[p] = ops[1].preSrc.files[p]
                       \/ /\ p \in ops[1].archive.files
                          /\ src.files[p] = ops[1].tag

\* A refresh resolved that was called while a failed run's scratch
\* directory held a file its own response does not have, and that spliced
\* a file of its response.
C16_Witness ==
    /\ RefreshResolved
    /\ ops[1].preScratch.exists
    /\ <<"pages", "B.page">> \in DOMAIN ops[1].preScratch.files
    /\ ops[1].archive.files = {<<"classes", "A.cls">>}
    /\ src.files[<<"classes", "A.cls">>] = ops[1].tag
    /\ <<"pages", "B.page">> \notin DOMAIN src.files
    /\ ~scratch.exists

\* C17: once refreshFromServer is rejected for a traversal error, src/
\* changes no more (what was spliced stays, what was not keeps its previous
\* content), and the promise stays rejected.
C17_NothingSplicedAfterTraversalError ==
    [][(ops[1].kind = "refresh" /\ ops[1].promise = "rejected")
          => /\ src' = src
             /\ (ops'[1].tag = ops[1].tag => ops'[1].promise = "rejected")]_vars

\* src/package.xml cannot be read, or does not parse.
Unparseable ==
    \/ ~pkgFile.exists
    \/ \E i \in 1..Len(pkgFile.tokens) : pkgFile.tokens[i] = XmlError

\* C18: when src/package.xml cannot be read or does not parse,
\* _parsePackageXml rejects with no package, and after a parse error only
\* once the parser has gone through all of the data; clean() then rejects
\* with no retrieveUnpackaged call and src/ as it was when it was called.
C18_ParseFailureDrainsThenCleanRejects ==
    ops[1].kind = "clean" =>
        /\ (ops[1].pc = "parsing" /\ pkgPc # "reading" /\ Unparseable)
              => /\ pkgPc = "rejected"
                 /\ pkg = EmptyPkg
                 /\ pkgFile.exists
                       => /\ pkgParser.pos = Len(pkgFile.tokens)
                          /\ ~pkgParser.isValidPackage
        /\ (ops[1].pc = "done" /\ pkgPc = "rejected")
              => /\ ops[1].promise = "rejected"
                 /\ ops[1].calls = 0
                 /\ ops[1].archive = NoArchive
                 /\ src = ops[1].preSrc

\* clean() rejected for a package.xml whose error is followed by more
\* markup, all of which the parser went through.
C18_Witness ==
    /\ ops[1].kind = "clean"
    /\ ops[1].pc = "done"
    /\ ops[1].promise = "rejected"
    /\ pkgFile.exists
    /\ Len(pkgFile.tokens) = 4
    /\ pkgFile.tokens[2] = XmlError
    /\ pkgParser.pos = 4
    /\ ops[1].calls = 0
    /\ src = ops[1].preSrc

\* _initExisting has started the step.
Started(step) == \E i \in 1..Len(exTrace) : exTrace[i] = step

SettingsSettled == exPc # "idle" /\ exPc # "settings" /\ exOutcome # "threw"

\* C14: _getSettings resolves only when config/.settings parsed and the
\* secret store returned a password, and self.settings then holds that
\* password; when the file does not parse it rejects with the read error,
\* when the secret store throws or returns nothing with the error of the
\* password; when it rejects the client is never made.
C14_SettingsNeedParseAndPassword ==
    SettingsSettled =>
        IF Started("_getCachedSession")
        THEN /\ exInput.settingsParse
             /\ exInput.password \notin {"empty", "throws"}
             /\ exSelf.settings = [loaded |-> TRUE, password |-> exInput.password]
        ELSE /\ exOutcome = "rejected"
             /\ ~Started("sfdcClient.initialize")
             /\ exError = IF ~exInput.settingsParse
                          THEN "settings unreadable"
                          ELSE "Could not get project settings"
             /\ exInput.settingsParse => exInput.password \in {"empty", "throws"}
             /\ exSelf.settings.password = "undefined"

\* _getSettings rejected because the secret store returned no password.
C14_Witness ==
    /\ SettingsSettled
    /\ exInput.settingsParse
    /\ exInput.password = "empty"
    /\ exOutcome = "rejected"
    /\ exError = "Could not get project settings"
    /\ exSelf.settings.loaded
    /\ ~Started("sfdcClient.initialize")

StashSettled == stLast \in {"stashed", "tmp.dir failed"} /\ stPc # "creating"

\* C19: _stash resolves and copies nothing when src/ does not exist, and
\* otherwise leaves a copy equal to src/ with src/ unchanged; after
\* _removeStash, called any number of times, no scratch copy is left.
C19_StashCopiesAndRemoveLeavesNothing ==
    /\ (StashSettled /\ ~stSrc.exists)
          => /\ stPc = "resolved"
             /\ \A d \in TmpDirs : stTmp[d].files = EmptyFiles
    /\ (StashSettled /\ stSrc.exists)
          => /\ stashPath # 0
             /\ stTmp[stashPath] = stSrc
    /\ stLast = "removed" => \A d \in TmpDirs : ~stTmp[d].exists

\* C19 (amended): _stash rejects when the temporary directory cannot be
\* made, whether src/ exists or not. When it is made, _stash resolves, the
\* directory holds a copy of the files of src/ (nothing when src/ does not
\* exist) and src/ is as it was. _removeStash removes the directory of the
\* stash made last and only that one: with no stash, or called again, it
\* changes nothing and raises nothing, and the copies of earlier stashes
\* that were not removed stay.
C19_StashOfLastDirectoryOnly ==
    /\ (stLast = "tmp.dir failed" /\ stPc # "creating") => stPc = "rejected"
    /\ (stLast = "stashed" /\ stPc # "creating")
          => /\ stPc = "resolved"
             /\ stashPath # 0
             /\ stTmp[stashPath].exists
             /\ stTmp[stashPath].files =
                   (IF stSrc.exists THEN stSrc.files ELSE EmptyFiles)
    /\ stLast = "removed" => (stashPath = 0 \/ ~stTmp[stashPath].exists)
    /\ stashPath = 0 => \A d \in TmpDirs : ~stTmp[d].exists

\* _removeStash called twice after two stashes of a src/ with files: the
\* second stash is gone, the first one is still there.
C19_Witness ==
    /\ stLast = "removed"
    /\ stRemoves = 2
    /\ stashPath = 2
    /\ ~stTmp[2].exists
    /\ stTmp[1].exists
    /\ stTmp[1].files = stSrc.files
    /\ stSrc.files # EmptyFiles

\* C24: the client made by initialize() of an existing project is given
\* the content of config/.session when that file exists, and an empty
\* session only when it is absent.
C24_ClientGetsStoredSession ==
    Started("sfdcClient.initialize") =>
        (exSelf.clientSession = "file" <=> "config/.session" \in exFiles)

\* C21: after a clean() or edit() that resolves, whatever failed before it,
\* src/ holds the files of the archive this operation retrieved, each with
\* the retrieved content, and no other file.
C21_ReplaceLeavesOwnResponseOnly ==
    ReplaceResolved =>
        /\ DOMAIN src.files = ops[1].archive.files
        /\ \A p \in DOMAIN src.files : src.files[p] = ops[1].tag

AllSessionWritesDone == seRenewals > 0 /\ seWrites = {} /\ ~seUncaught

\* C23: once every write started by the renewal notifications has
\* completed, config/.session holds the session of the most recent renewal.
C23_FileHoldsMostRecentRenewal ==
    AllSessionWritesDone =>
        /\ seFile.exists
        /\ seFile.session = seClient

\* C23 (amended): each write puts into config/.session the whole session
\* read from the client at its notification, and nothing of what was there
\* before. Once every write has completed, the file holds the session of
\* the renewal whose write completed last; that is the most recent renewal
\* when no two writes were in flight together.
C23_FileHoldsLastCompletedWrite ==
    /\ seLastDone # 0
          => /\ seFile.exists
             /\ seFile.session.accessToken = seLastDone
    /\ (AllSessionWritesDone /\ ~seOverlap)
          => /\ seFile.exists
             /\ seFile.session = seClient

\* Two renewals whose writes completed in the opposite order: the file
\* holds the first renewal's session, with its own instanceUrl.
C23_Witness ==
    /\ AllSessionWritesDone
    /\ seRenewals = 2
    /\ seLastDone = 1
    /\ seFile.session.accessToken = 1
    /\ seFile.session.instanceUrl = "u2"
    /\ seClient = [accessToken |-> 2, instanceUrl |-> "u1"]

\* The files of its retrieve response that operation s puts into src/.
OwnFiles(s) ==
    IF ops[s].kind = "refresh"
    THEN {rel \in ops[s].archive.files : path_basename(rel) # "package.xml"}
    ELSE ops[s].archive.files

\* Operation s resolves in this step.
Resolves(s) == ops[s].promise = "pending" /\ ops'[s].promise = "resolved"

\* Another operation takes this step while s is walking unpackaged/.
OtherStepsWhileTraversed(s) ==
    /\ ops[s].pc = "traversing"
    /\ ops'[s] = ops[s]
    /\ ops' # ops

\* C22: whichever way two retrieve-based operations interleave, at the step
\* in which one of them resolves every file of its own retrieve response is
\* in src/ with the content it retrieved, and no step of the other removes
\* or renames unpackaged/ while the first is still walking it.
C22_InterleavedRunsKeepPostconditions ==
    [][\A s \in Slots :
          /\ Resolves(s) =>
                \A rel \in OwnFiles(s) :
                    /\ rel \in DOMAIN src'.files
                    /\ src'.files[rel] = ops[s].tag
          /\ (OtherStepsWhileTraversed(s) /\ scratch.exists) => scratch'.exists
      ]_vars


====
